---------------------------- MODULE Spec2Model ----------------------------
(***************************************************************************)
(* Model of ls/joyous/formats/vtimezone.py: create_timezone (the VTIMEZONE *)
(* builder) and to_naive_utc (the UTC normalizer).                         *)
(*                                                                         *)
(* Instants are integers on the UTC timeline.  A datetime is a record      *)
(* [cls, wall, tzinfo]: tzinfo is NoTz for a naive value, else the UTC     *)
(* offset of its zone.  A UTC offset stored in a transition history is a   *)
(* record [type, v]: type "timedelta" for a duration, "number" for a plain *)
(* number.  Indices are 0-based as in the source; PyIndex gives Python's   *)
(* indexing, negative indices included.                                    *)
(***************************************************************************)
EXTENDS Integers, Sequences, FiniteSets, TLC

VARIABLES
    call,        \* which entry point this behaviour runs
    pc,          \* position in the running function
    error,       \* exception raised ("" when none)
    args,        \* tz, first_date, last_date as passed by the caller
    tz,          \* local tz (rebound at line 72)
    first_date,  \* local first_date after line 74
    last_date,   \* local last_date after line 75
    first_num, last_num, first_tt, last_tt,
    num,         \* loop variable of the two for loops
    timezones,   \* dict name -> subcomponent, in insertion order
    timezone,    \* the icalendar.Timezone being built / returned
    dtime,       \* argument of to_naive_utc
    once, twice  \* to_naive_utc(dtime), to_naive_utc(to_naive_utc(dtime))

vars == <<call, pc, error, tz, args, first_date, last_date, first_num,
          last_num, first_tt, last_tt, num, timezones, timezone,
          dtime, once, twice>>

---------------------------------------------------------------------------
(* Bounds and value domains *)

MaxN == 3                       \* longest transition history

None == -1                      \* an omitted date argument
NoTz == -99                     \* tzinfo of a naive datetime
Epoch1601 == -1601              \* dt.datetime(1601, 1, 1)

\* _utc_transition_times[i]: strictly increasing, with room for a window
\* bound before, on, between and after every transition.
TransitionTime(i) == 2 * i + 2
Instants == 1 .. (2 * MaxN + 1)

Timedelta(s) == [type |-> "timedelta", v |-> s]
Number(s) == [type |-> "number", v |-> s]

\* _transition_info entries (utcoffset, dst, tzname).  The third shares its
\* abbreviation with the first but not its offset (cf. NZST, lines 79-86).
TransitionInfos ==
    { [off |-> Timedelta(1), dst |-> FALSE, name |-> "A"],
      [off |-> Timedelta(2), dst |-> TRUE,  name |-> "B"],
      [off |-> Timedelta(3), dst |-> FALSE, name |-> "A"],
      [off |-> Number(1),    dst |-> FALSE, name |-> "A"],
      [off |-> Number(2),    dst |-> TRUE,  name |-> "B"] }

Histories == UNION { [1..n -> TransitionInfos] : n \in 0..MaxN }

Times(n) == [i \in 1..n |-> TransitionTime(i - 1)]

StaticOffsets == { Timedelta(0), Timedelta(1), Timedelta(2) }

\* The zones create_timezone is given.
\*   "static"   : pytz StaticTzInfo / FixedOffset, no _utc_transition_times
\*   "zoneinfo" : zoneinfo.ZoneInfo; `info` is the history of pytz_timezone(key)
\*   "dst"      : a zone with _utc_transition_times / _transition_info;
\*                `aware` tells whether its transition instants carry a
\*                tzinfo (pytz stores them naive)
Zones ==
    { [kind |-> "static", zone |-> "Z", utcoffset |-> o, aware |-> FALSE,
       times |-> <<>>, info |-> <<>>] : o \in StaticOffsets }
    \cup
    { [kind |-> "zoneinfo", zone |-> "Z", utcoffset |-> Timedelta(0),
       aware |-> FALSE, times |-> Times(Len(h)), info |-> h] : h \in Histories }
    \cup
    { [kind |-> "dst", zone |-> "Z", utcoffset |-> Timedelta(0),
       aware |-> a, times |-> Times(Len(h)), info |-> h] :
         h \in Histories, a \in BOOLEAN }

Arguments ==
    [tz : Zones, first_date : Instants \cup {None},
     last_date : Instants \cup {None}]

DatetimeValues ==
    { [cls |-> "date", wall |-> w, tzinfo |-> NoTz] : w \in Instants }
    \cup
    { [cls |-> "datetime", wall |-> w, tzinfo |-> z] :
         w \in Instants, z \in {NoTz, -2, -1, 0, 1, 2} }

NoDatetime == [cls |-> "none", wall |-> 0, tzinfo |-> NoTz]
NoZone == [kind |-> "none", zone |-> "", utcoffset |-> Timedelta(0),
           aware |-> FALSE, times |-> <<>>, info |-> <<>>]
NoTimezone == [TZID |-> "", subcomponents |-> <<>>]

---------------------------------------------------------------------------
(* Python helpers *)

\* seq[i] in Python: 0-based, a negative index counts from the end.
PyIndex(seq, i) == IF i < 0 THEN seq[Len(seq) + i + 1] ELSE seq[i + 1]

\* hasattr(tz, '_utc_transition_times')
HasTransitionTimes(z) == z.kind = "dst"

\* isinstance(x, dt.timedelta)
IsTimedelta(x) == x.type = "timedelta"

---------------------------------------------------------------------------
(* to_naive_utc, lines 32-41 *)

\* A variant without the early return of lines 36-37: astimezone then reads
\* a naive value as system local time (here one unit east of UTC).
to_naive_utc_unguarded(d) ==
    [cls |-> "datetime",
     wall |-> d.wall - (IF d.tzinfo = NoTz THEN 1 ELSE d.tzinfo),
     tzinfo |-> NoTz]

to_naive_utc(d) ==
    IF d.cls = "date" \/ d.tzinfo = NoTz
    THEN d
    ELSE [cls |-> "datetime", wall |-> d.wall - d.tzinfo, tzinfo |-> NoTz]

---------------------------------------------------------------------------
(* create_timezone, lines 43-145 *)

\* Line 57: isinstance(tz, dt.tzinfo) and not hasattr(tz, '_utc_transition_times')
IsStaticPath(z) == ~HasTransitionTimes(z)

\* Lines 59-61: the offset the static path writes.
StaticOffset(z) == Timedelta(0)

\* Lines 58-66
StaticSubcomp(z) ==
    [kind |-> "STANDARD", TZNAME |-> z.zone, DTSTART |-> Epoch1601,
     TZOFFSETTO |-> StaticOffset(z), TZOFFSETFROM |-> StaticOffset(z),
     RDATE |-> <<>>]

\* Variants of the scan tests: the date test taken to include the bound,
\* dropped, turned around, or cut loose from the running marker.
ScanFirstHit_inclusive(transtime, ftt, fdate) ==
    transtime > ftt /\ transtime <= fdate
ScanFirstHit_undated(transtime, ftt, fdate) == transtime > ftt
ScanLastHit_before(transtime, ltt, ldate) ==
    transtime < ltt /\ transtime < ldate
ScanLastHit_unmarked(transtime, ltt, ldate) == transtime > ldate

\* Line 103 / line 106: the tests of the window scan.
ScanFirstHit(transtime, ftt, fdate) == transtime > ftt /\ transtime < fdate
ScanLastHit(transtime, ltt, ldate) == transtime < ltt /\ transtime > ldate

\* Ordering a naive datetime against an aware one raises TypeError; the
\* right operand of each `and` is evaluated only when the left one is true.
ScanRaises(z, transtime, ftt, ltt) ==
    ~z.aware /\ (transtime > ftt \/ transtime < ltt)

\* tz.fromutc(tz._utc_transition_times[n]).replace(tzinfo=None): the instant
\* moved by the offset in effect at it (the last transition not after it).
InEffect(z, t) ==
    LET k == Cardinality({j \in 1..Len(z.times) : z.times[j] <= t})
    IN  IF k = 0 THEN 0 ELSE k - 1
LocalStart(z, n) ==
    PyIndex(z.times, n) + PyIndex(z.info, InEffect(z, PyIndex(z.times, n))).off.v
LocalStartDefined(z, n) ==
    IsTimedelta(PyIndex(z.info, InEffect(z, PyIndex(z.times, n))).off)

\* name in timezones
HasKey(d, name) == \E k \in 1..Len(d) : d[k].TZNAME = name

\* A variant that sets RDATE anew instead of appending to it.
AddRDate_overwrite(d, name, ttime) ==
    [k \in 1..Len(d) |->
        IF d[k].TZNAME = name THEN [d[k] EXCEPT !.RDATE = <<ttime>>]
        ELSE d[k]]

\* Lines 115-119
AddRDate(d, name, ttime) ==
    [k \in 1..Len(d) |->
        IF d[k].TZNAME = name THEN [d[k] EXCEPT !.RDATE = Append(@, ttime)]
        ELSE d[k]]

\* A variant that stops at index 0 instead of wrapping to the end.
FromIndex_clamped(n) == IF n = 0 THEN 0 ELSE n - 1

\* Line 134: the index of the transition TZOFFSETFROM is read from.
FromIndex(n) == n - 1

\* Lines 122-139
NewSubcomp(z, n) ==
    [kind |-> IF PyIndex(z.info, n).dst THEN "DAYLIGHT" ELSE "STANDARD",
     TZNAME |-> PyIndex(z.info, n).name,
     DTSTART |-> LocalStart(z, n),
     TZOFFSETTO |-> PyIndex(z.info, n).off,
     TZOFFSETFROM |-> PyIndex(z.info, FromIndex(n)).off,
     RDATE |-> <<>>]

\* Line 135
OffsetsAreTimedeltas(z, n) ==
    /\ IsTimedelta(PyIndex(z.info, n).off)
    /\ IsTimedelta(PyIndex(z.info, FromIndex(n)).off)

Raise(exc) ==
    /\ pc' = "error"
    /\ error' = exc

\* Lines 52-67
StaticZone ==
    /\ call = "create_timezone" /\ pc = "start"
    /\ IsStaticPath(tz)
    /\ timezone' = [TZID |-> tz.zone, subcomponents |-> <<StaticSubcomp(tz)>>]
    /\ pc' = "done"
    /\ UNCHANGED <<call, error, tz, args, first_date, last_date, first_num,
                   last_num, first_tt, last_tt, num, timezones, dtime, once,
                   twice>>

\* Lines 70-77.  Each omitted bound is its own read of the clock.
ResolveWindow ==
    /\ call = "create_timezone" /\ pc = "start"
    /\ ~IsStaticPath(tz)
    /\ tz' = IF tz.kind = "zoneinfo" THEN [tz EXCEPT !.kind = "dst"] ELSE tz
    /\ \E now1, now2 \in Instants :
          /\ now1 <= now2
          /\ first_date' = IF args.first_date = None THEN now1
                           ELSE args.first_date
          /\ last_date' = IF args.last_date = None THEN now2
                          ELSE args.last_date
    /\ timezone' = [TZID |-> tz.zone, subcomponents |-> <<>>]
    /\ pc' = "scan_init"
    /\ UNCHANGED <<call, error, args, first_num, last_num, first_tt, last_tt,
                   num, timezones, dtime, once, twice>>

\* Lines 99-101
ScanInit ==
    /\ call = "create_timezone" /\ pc = "scan_init"
    /\ first_num' = 0
    /\ last_num' = Len(tz.times) - 1
    /\ IF Len(tz.times) = 0
       THEN /\ Raise("IndexError")
            /\ UNCHANGED <<first_tt, last_tt, num>>
       ELSE /\ first_tt' = PyIndex(tz.times, 0)
            /\ last_tt' = PyIndex(tz.times, -1)
            /\ num' = 0
            /\ pc' = "scan"
            /\ UNCHANGED error
    /\ UNCHANGED <<call, tz, args, first_date, last_date, timezones, timezone,
                   dtime, once, twice>>

\* Lines 102-108, one iteration
ScanStep ==
    /\ call = "create_timezone" /\ pc = "scan"
    /\ num < Len(tz.times)
    /\ LET transtime == PyIndex(tz.times, num)
           hit1 == ScanFirstHit(transtime, first_tt, first_date)
           hit2 == ScanLastHit(transtime, last_tt, last_date)
       IN  IF ScanRaises(tz, transtime, first_tt, last_tt)
           THEN /\ Raise("TypeError")
                /\ UNCHANGED <<first_num, first_tt, last_num, last_tt, num>>
           ELSE /\ first_num' = IF hit1 THEN num ELSE first_num
                /\ first_tt' = IF hit1 THEN transtime ELSE first_tt
                /\ last_num' = IF hit2 THEN num ELSE last_num
                /\ last_tt' = IF hit2 THEN transtime ELSE last_tt
                /\ num' = num + 1
                /\ UNCHANGED <<pc, error>>
    /\ UNCHANGED <<call, tz, args, first_date, last_date, timezones, timezone,
                   dtime, once, twice>>

\* Lines 110-111: the scan is over, the grouping loop starts at first_num
BeginGroup ==
    /\ call = "create_timezone" /\ pc = "scan"
    /\ num = Len(tz.times)
    /\ timezones' = <<>>
    /\ num' = first_num
    /\ pc' = "group"
    /\ UNCHANGED <<call, error, tz, args, first_date, last_date, first_num,
                   last_num, first_tt, last_tt, timezone, dtime, once, twice>>

\* Lines 111-140, one iteration.  tz.fromutc belongs to the zone: given an
\* offset that is no timedelta it may raise or come back with a value.
GroupStep ==
    /\ call = "create_timezone" /\ pc = "group"
    /\ num <= last_num
    /\ LET name == PyIndex(tz.info, num).name
       IN  \/ /\ ~LocalStartDefined(tz, num)
              /\ Raise("TypeError")
              /\ UNCHANGED <<timezones, num>>
           \/ /\ HasKey(timezones, name)
              /\ timezones' = AddRDate(timezones, name, LocalStart(tz, num))
              /\ num' = num + 1
              /\ UNCHANGED <<pc, error>>
           \/ /\ ~HasKey(timezones, name)
              /\ IF OffsetsAreTimedeltas(tz, num)
                 THEN /\ timezones' = Append(timezones, NewSubcomp(tz, num))
                      /\ num' = num + 1
                      /\ UNCHANGED <<pc, error>>
                 ELSE /\ Raise("ValueError")
                      /\ UNCHANGED <<timezones, num>>
    /\ UNCHANGED <<call, tz, args, first_date, last_date, first_num, last_num,
                   first_tt, last_tt, timezone, dtime, once, twice>>

\* Lines 142-145
Attach ==
    /\ call = "create_timezone" /\ pc = "group"
    /\ num > last_num
    /\ timezone' = [timezone EXCEPT !.subcomponents = timezones]
    /\ pc' = "done"
    /\ UNCHANGED <<call, error, tz, args, first_date, last_date, first_num,
                   last_num, first_tt, last_tt, num, timezones, dtime, once,
                   twice>>

\* to_naive_utc applied to the argument, then to its own result
NormalizeOnce ==
    /\ call = "to_naive_utc" /\ pc = "start"
    /\ once' = to_naive_utc(dtime)
    /\ pc' = "once"
    /\ UNCHANGED <<call, error, tz, args, first_date, last_date, first_num,
                   last_num, first_tt, last_tt, num, timezones, timezone,
                   dtime, twice>>

NormalizeTwice ==
    /\ call = "to_naive_utc" /\ pc = "once"
    /\ twice' = to_naive_utc(once)
    /\ pc' = "twice"
    /\ UNCHANGED <<call, error, tz, args, first_date, last_date, first_num,
                   last_num, first_tt, last_tt, num, timezones, timezone,
                   dtime, once>>

Init ==
    /\ pc = "start" /\ error = ""
    /\ first_date = None /\ last_date = None
    /\ first_num = 0 /\ last_num = 0 /\ first_tt = 0 /\ last_tt = 0
    /\ num = 0 /\ timezones = <<>> /\ timezone = NoTimezone
    /\ once = NoDatetime /\ twice = NoDatetime
    /\ \/ /\ call = "create_timezone"
          /\ args \in Arguments
          /\ tz = args.tz
          /\ dtime = NoDatetime
       \/ /\ call = "to_naive_utc"
          /\ dtime \in DatetimeValues
          /\ tz = NoZone
          /\ args = [tz |-> NoZone, first_date |-> None, last_date |-> None]

Next ==
    \/ StaticZone
    \/ ResolveWindow
    \/ ScanInit
    \/ ScanStep
    \/ BeginGroup
    \/ GroupStep
    \/ Attach
    \/ NormalizeOnce
    \/ NormalizeTwice

Spec == Init /\ [][Next]_vars

---------------------------------------------------------------------------
(* Vocabulary of the properties *)

N == Len(tz.times)
T(i) == tz.times[i + 1]
Info(i) == tz.info[i + 1]
Subcomponents == timezone.subcomponents

\* create_timezone has returned from the dynamic-zone path
DynamicDone == call = "create_timezone" /\ pc = "done" /\ tz.kind = "dst"
\* the window scan of lines 102-108 has run to its end
ScanOver == call = "create_timezone" /\ pc \in {"group", "done"} /\ tz.kind = "dst"

InRange == first_num .. last_num
NamesInRange == { Info(i).name : i \in InRange }
Occurrences(name) == { i \in InRange : Info(i).name = name }
FirstOccurrence(name) ==
    CHOOSE i \in Occurrences(name) : \A j \in Occurrences(name) : i <= j
\* the k-th (k = 1, 2, ...) index in the range bearing `name`
NthOccurrence(name, k) ==
    CHOOSE i \in Occurrences(name) :
        Cardinality({ j \in Occurrences(name) : j < i }) = k - 1
AllTimedeltas == \A i \in 0 .. N - 1 : IsTimedelta(Info(i).off)

Before(d) == { i \in 0 .. N - 1 : T(i) < d }
After(d) == { i \in 0 .. N - 1 : T(i) > d }
Largest(S) == CHOOSE i \in S : \A j \in S : j <= i
Smallest(S) == CHOOSE i \in S : \A j \in S : i <= j

\* the window holds exactly the transition k strictly inside it
OnlyTransitionInWindow(k) ==
    /\ k \in 0 .. N - 1
    /\ \A i \in 0 .. N - 1 : (first_date < T(i) /\ T(i) < last_date) <=> i = k

BothOmitted == args.first_date = None /\ args.last_date = None

---------------------------------------------------------------------------
(* C1: for a static zone the tree has exactly one STANDARD sub-component   *)
(* whose TZOFFSETFROM and TZOFFSETTO are the zone's fixed UTC offset and   *)
(* whose DTSTART is the 1601 sentinel, whatever the window.                *)
C1_StaticOffsetIsZoneOffset ==
    (call = "create_timezone" /\ pc = "done" /\ args.tz.kind = "static") =>
        /\ Len(Subcomponents) = 1
        /\ Subcomponents[1].kind = "STANDARD"
        /\ Subcomponents[1].DTSTART = Epoch1601
        /\ Subcomponents[1].TZOFFSETTO = args.tz.utcoffset
        /\ Subcomponents[1].TZOFFSETFROM = args.tz.utcoffset

(* C2: with all offsets durations, a returned tree has one sub-component   *)
(* per distinct name in first_num..last_num, and the sub-component of a    *)
(* name carries as RDATE the local start times (instant plus offset) of    *)
(* that name's second, third, ... occurrence in the range, in index order. *)
C2_GroupedByName ==
    (DynamicDone /\ AllTimedeltas) =>
        /\ Len(Subcomponents) = Cardinality(NamesInRange)
        /\ \A k \in 1 .. Len(Subcomponents) :
            LET s == Subcomponents[k]
                nm == s.TZNAME
            IN  /\ nm \in NamesInRange
                /\ Len(s.RDATE) = Cardinality(Occurrences(nm)) - 1
                /\ \A r \in 1 .. Len(s.RDATE) :
                      LET i == NthOccurrence(nm, r + 1)
                      IN  s.RDATE[r] = T(i) + Info(i).off.v

\* names A, B, A in the range: A with one RDATE, B with none
C2_Witness ==
    /\ DynamicDone /\ AllTimedeltas
    /\ last_num = first_num + 2
    /\ Info(first_num).name = "A"
    /\ Info(first_num + 1).name = "B"
    /\ Info(first_num + 2).name = "A"
    /\ Len(Subcomponents) = 2
    /\ Subcomponents[1].TZNAME = "A"
    /\ Subcomponents[1].RDATE = <<T(last_num) + Info(last_num).off.v>>
    /\ Subcomponents[2].RDATE = <<>>

(* C3 as stated: a window with exactly one transition k inside it gives a  *)
(* tree of exactly one sub-component, without RDATE, whose TZOFFSETTO is   *)
(* the offset of transition k.                                             *)
C3_SingleSubcomponent ==
    \A k \in 0 .. MaxN :
        (DynamicDone /\ OnlyTransitionInWindow(k)) =>
            /\ Len(Subcomponents) = 1
            /\ Subcomponents[1].RDATE = <<>>
            /\ Subcomponents[1].TZOFFSETTO = Info(k).off

(* C3 amended: with exactly one transition k inside the window, the        *)
(* rendered range holds k and its neighbours as well: first_num is below k *)
(* when k > 0 and last_num above k when k < N-1, each at most two away;    *)
(* the sub-component of k's name has the TZOFFSETTO of that name's first   *)
(* transition in the range; and the tree is a single sub-component without *)
(* RDATE only when the history has that one transition and no other.       *)
C3_RangeHoldsNeighbours ==
    \A k \in 0 .. MaxN :
        (DynamicDone /\ OnlyTransitionInWindow(k)) =>
            /\ first_num <= k /\ k <= last_num
            /\ k > 0 => (first_num < k /\ first_num >= k - 2)
            /\ k < N - 1 => (last_num > k /\ last_num <= k + 2)
            /\ \E j \in 1 .. Len(Subcomponents) :
                  /\ Subcomponents[j].TZNAME = Info(k).name
                  /\ Subcomponents[j].TZOFFSETTO =
                        Info(FirstOccurrence(Info(k).name)).off
            /\ (Len(Subcomponents) = 1 /\ Subcomponents[1].RDATE = <<>>)
                  => N = 1

\* transition 1 alone inside the window, three transitions rendered
C3_Witness ==
    /\ DynamicDone /\ AllTimedeltas
    /\ OnlyTransitionInWindow(1)
    /\ first_num = 0 /\ last_num = 2
    /\ Len(Subcomponents) = 2

(* C4: whenever a transition in first_num..last_num has an offset that is  *)
(* not a duration, create_timezone returns no tree.                        *)
C4_NoTreeWithNonDuration ==
    DynamicDone => \A i \in InRange : IsTimedelta(Info(i).off)

(* C5: for a window with first_date <= last_date the scan ends with        *)
(* first_num <= last_num, every transition whose instant lies in           *)
(* [first_date, last_date] is inside first_num..last_num, and a returned   *)
(* tree has at least one sub-component.                                    *)
C5_ValidWindowNotEmpty ==
    (ScanOver /\ first_date <= last_date) =>
        /\ first_num <= last_num
        /\ \A i \in 0 .. N - 1 :
              (first_date <= T(i) /\ T(i) <= last_date) => i \in InRange
        /\ pc = "done" => Len(Subcomponents) >= 1

\* the window collapsed onto a transition that is neither first nor last
C5_Witness ==
    /\ DynamicDone
    /\ N >= 3
    /\ first_date = last_date
    /\ first_date = T(1)
    /\ 1 \in InRange

(* C6: a ZoneInfo with a transition history is converted to its pytz       *)
(* equivalent and rendered by the dynamic-zone path, one sub-component per *)
(* distinct name in the range, not as a single static STANDARD one.        *)
C6_ZoneInfoTakesDynamicPath ==
    (call = "create_timezone" /\ pc = "done" /\ args.tz.kind = "zoneinfo"
        /\ Len(args.tz.info) >= 2) =>
        /\ tz.kind = "dst"
        /\ Len(Subcomponents) = Cardinality(NamesInRange)
        /\ \A k \in 1 .. Len(Subcomponents) :
              Subcomponents[k].DTSTART # Epoch1601

(* C7: to_naive_utc applied twice gives what it gives applied once, and it *)
(* returns its argument itself when the argument has no zone attached.     *)
C7_Idempotent ==
    /\ (call = "to_naive_utc" /\ pc = "twice") => twice = once
    /\ (call = "to_naive_utc" /\ pc \in {"once", "twice"}
          /\ (dtime.cls = "date" \/ dtime.tzinfo = NoTz)) => once = dtime

\* an aware value east of UTC, moved by the conversion, normalized twice
C7_Witness ==
    /\ call = "to_naive_utc" /\ pc = "twice"
    /\ dtime.tzinfo = 2
    /\ once.wall = dtime.wall - 2
    /\ once.tzinfo = NoTz

(* C8: over strictly increasing instants the scan ends with first_num the  *)
(* largest index whose instant is before first_date (0 if there is none)   *)
(* and last_num the smallest index whose instant is after last_date (N-1   *)
(* if there is none).                                                      *)
C8_ScanResult ==
    ScanOver =>
        /\ first_num = IF Before(first_date) = {} THEN 0
                       ELSE Largest(Before(first_date))
        /\ last_num = IF After(last_date) = {} THEN N - 1
                      ELSE Smallest(After(last_date))

\* the scan moved first_num off 0 and found a transition after the window
C8_Witness ==
    /\ ScanOver
    /\ first_date <= last_date
    /\ first_num > 0
    /\ T(first_num) < first_date
    /\ T(last_num) > last_date

(* C9 as stated: with both bounds omitted, only the transition in effect   *)
(* at 'now' is in the rendered range: none later than 'now', none that was *)
(* superseded before 'now'.                                                *)
C9_OnlyCurrentTransition ==
    (DynamicDone /\ BothOmitted) =>
        \A i \in InRange :
            /\ T(i) <= last_date
            /\ ~ \E j \in 0 .. N - 1 : j > i /\ T(j) < first_date

(* C9 amended: with both bounds omitted, the rendered range runs from the  *)
(* latest transition before 'now' (index 0 if none) to the earliest one    *)
(* after 'now' (the last index if none): no transition superseded before   *)
(* 'now' is in it, and at most one transition later than 'now' is, the     *)
(* next one to come.                                                       *)
C9_CurrentAndNextTransition ==
    (DynamicDone /\ BothOmitted) =>
        /\ \A i \in InRange :
              ~ \E j \in 0 .. N - 1 : j > i /\ T(j) < first_date
        /\ Cardinality({ i \in InRange : T(i) > last_date }) <= 1
        /\ \A i \in InRange :
              T(i) > last_date => \A j \in After(last_date) : i <= j

\* 'now' between two transitions: the coming one is rendered too
C9_Witness ==
    /\ DynamicDone /\ BothOmitted
    /\ first_date = last_date
    /\ first_num < last_num
    /\ T(first_num) < first_date
    /\ T(last_num) > last_date
    /\ Len(Subcomponents) = 2

(* C10: a sub-component created from transition i (the first of its name   *)
(* in the range) has TZOFFSETTO the offset of i and TZOFFSETFROM the       *)
(* offset of transition (i - 1) mod N; for i = 0 that is the last          *)
(* transition of the history.                                              *)
C10_OffsetFromWraps ==
    DynamicDone =>
        \A k \in 1 .. Len(Subcomponents) :
            LET i == FirstOccurrence(Subcomponents[k].TZNAME)
            IN  /\ Subcomponents[k].TZOFFSETTO = Info(i).off
                /\ Subcomponents[k].TZOFFSETFROM = Info((i - 1 + N) % N).off

\* the range starts at index 0 of a longer history whose last offset differs
C10_Witness ==
    /\ DynamicDone
    /\ N >= 2
    /\ first_num = 0
    /\ Info(N - 1).off # Info(0).off
    /\ Subcomponents[1].TZOFFSETFROM = Info(N - 1).off

====
